---- MODULE Spec2Model ----
(***************************************************************************)
(* A model of src/src/Sheets.js: the Sheets session object (mode, table    *)
(* catalog, selected table, header, base snapshot `values`, current view   *)
(* `results`) and the remote spreadsheet it reads and rewrites.            *)
(*                                                                         *)
(* JavaScript strings are sequences of one-character strings; a JavaScript *)
(* value is a record tagged with its type; a JavaScript object is the      *)
(* sequence of its own properties in enumeration order.                    *)
(***************************************************************************)
EXTENDS Integers, Sequences, FiniteSets, TLC

\* ------------------------------------------------------------------ bounds

\* Number of operations performed on a session in one behaviour.
MaxSteps == 5

\* Longest current view a non-upsert or upsert insert may still extend.
MaxRows == 3

\* Number of write-backs that may be in flight on a session at once.
MaxInFlight == 2

\* Longest header cell the clean-up is applied to.
MaxHeaderLen == 3

\* ------------------------------------------------------------- JS strings

Digits == <<"0", "1", "2", "3", "4", "5", "6", "7", "8", "9">>

IsDigit(c) == \E i \in 1..10 : Digits[i] = c

DigitVal(c) == (CHOOSE i \in 1..10 : Digits[i] = c) - 1

IsUpper(c) == c \in {"A", "B", "N"}

IsLower(c) == c \in {"a", "b", "n", "x", "y"}

IsSpace(c) == c = " "

IsAlnum(c) == IsDigit(c) \/ IsUpper(c) \/ IsLower(c)

\* String.prototype.toLowerCase, one character
ToLowerChar(c) ==
    CASE c = "A" -> "a"
      [] c = "B" -> "b"
      [] c = "N" -> "n"
      [] OTHER -> c

\* UTF-16 code unit of a character of the alphabet
CharCode(c) ==
    CASE c = " " -> 32
      [] c = "-" -> 45
      [] IsDigit(c) -> 48 + DigitVal(c)
      [] c = "A" -> 65
      [] c = "B" -> 66
      [] c = "N" -> 78
      [] c = "_" -> 95
      [] c = "a" -> 97
      [] c = "b" -> 98
      [] c = "n" -> 110
      [] c = "x" -> 120
      [] c = "y" -> 121
      [] OTHER -> 0

RECURSIVE TrimLeft(_)
TrimLeft(s) == IF s # <<>> /\ IsSpace(Head(s)) THEN TrimLeft(Tail(s)) ELSE s

RECURSIVE TrimRight(_)
TrimRight(s) ==
    IF s # <<>> /\ IsSpace(s[Len(s)]) THEN TrimRight(SubSeq(s, 1, Len(s) - 1)) ELSE s

\* String.prototype.trim
Trim(s) == TrimRight(TrimLeft(s))

\* String.prototype.includes
Includes(s, sub) ==
    \E i \in 1..(Len(s) - Len(sub) + 1) : SubSeq(s, i, i + Len(sub) - 1) = sub

\* the relational comparison of two strings: code units, left to right
RECURSIVE StrLess(_, _)
StrLess(a, b) ==
    IF b = <<>> THEN FALSE
    ELSE IF a = <<>> THEN TRUE
    ELSE IF CharCode(Head(a)) # CharCode(Head(b)) THEN CharCode(Head(a)) < CharCode(Head(b))
    ELSE StrLess(Tail(a), Tail(b))

\* String.prototype.localeCompare(other, undefined, {sensitivity: "base"}):
\* the primary collation weight of a character (case is not a primary difference)
CollationRank(c) ==
    CASE c = " " -> 1
      [] c = "_" -> 2
      [] c = "-" -> 3
      [] IsDigit(c) -> 10 + DigitVal(c)
      [] OTHER -> CharCode(ToLowerChar(c))

RECURSIVE LocaleCompareBase(_, _)
LocaleCompareBase(a, b) ==
    IF a = <<>> /\ b = <<>> THEN 0
    ELSE IF a = <<>> THEN -1
    ELSE IF b = <<>> THEN 1
    ELSE IF CollationRank(Head(a)) < CollationRank(Head(b)) THEN -1
    ELSE IF CollationRank(Head(a)) > CollationRank(Head(b)) THEN 1
    ELSE LocaleCompareBase(Tail(a), Tail(b))

\* -------------------------------------------------------------- JS values

Str(s) == [t |-> "string", s |-> s, n |-> 0]

Num(n) == [t |-> "number", s |-> <<>>, n |-> n]

Undefined == [t |-> "undefined", s |-> <<>>, n |-> 0]

IsString(v) == v.t = "string"

NotANumber == [nan |-> TRUE, n |-> 0]

RECURSIVE DigitsValue(_)
DigitsValue(s) ==
    IF s = <<>> THEN 0 ELSE 10 * DigitsValue(SubSeq(s, 1, Len(s) - 1)) + DigitVal(s[Len(s)])

AllDigits(s) == s # <<>> /\ \A i \in 1..Len(s) : IsDigit(s[i])

\* ToNumber applied to a string: white space is stripped, "" is 0, a decimal
\* literal is its value, anything else is NaN
StringToNumber(s) ==
    LET t == Trim(s) IN
    IF t = <<>> THEN [nan |-> FALSE, n |-> 0]
    ELSE IF AllDigits(t) THEN [nan |-> FALSE, n |-> DigitsValue(t)]
    ELSE IF Head(t) = "-" /\ AllDigits(Tail(t)) THEN [nan |-> FALSE, n |-> 0 - DigitsValue(Tail(t))]
    ELSE NotANumber

ToNumber(v) ==
    CASE v.t = "number" -> [nan |-> FALSE, n |-> v.n]
      [] v.t = "string" -> StringToNumber(v.s)
      [] OTHER -> NotANumber

RECURSIVE NatToString(_)
NatToString(n) ==
    IF n < 10 THEN <<Digits[n + 1]>> ELSE NatToString(n \div 10) \o <<Digits[(n % 10) + 1]>>

\* ToString
ToStr(v) ==
    CASE v.t = "string" -> v.s
      [] v.t = "number" -> IF v.n < 0 THEN <<"-">> \o NatToString(0 - v.n) ELSE NatToString(v.n)
      [] OTHER -> <<"u", "n", "d", "e", "f", "i", "n", "e", "d">>

\* ToBoolean
Truthy(v) ==
    CASE v.t = "string" -> v.s # <<>>
      [] v.t = "number" -> v.n # 0
      [] OTHER -> FALSE

\* x === y
StrictEquals(x, y) == x = y

\* x == y: values of the same type compare strictly; a number and a string
\* compare after ToNumber of the string; undefined equals only undefined
LooseEquals(x, y) ==
    IF x.t = y.t THEN x = y
    ELSE IF x.t = "undefined" \/ y.t = "undefined" THEN FALSE
    ELSE LET a == ToNumber(x)
             b == ToNumber(y)
         IN  ~a.nan /\ ~b.nan /\ a.n = b.n

\* whether x < y is decided (neither side converts to NaN)
Comparable(x, y) ==
    (IsString(x) /\ IsString(y)) \/ (~ToNumber(x).nan /\ ~ToNumber(y).nan)

\* x < y
LessThan(x, y) ==
    IF IsString(x) /\ IsString(y) THEN StrLess(x.s, y.s)
    ELSE Comparable(x, y) /\ ToNumber(x).n < ToNumber(y).n

\* ------------------------------------------------------------- JS objects

\* the key of the synthetic identifier
PrimaryKey == <<"primary_key">>

\* a canonical array index ("0", "7", "12"): such keys enumerate first, ascending
IsIndexKey(k) == AllDigits(k) /\ (Len(k) = 1 \/ Head(k) # "0")

HasKey(obj, k) == \E i \in 1..Len(obj) : obj[i].k = k

\* obj[k]
Get(obj, k) ==
    IF HasKey(obj, k) THEN obj[CHOOSE i \in 1..Len(obj) : obj[i].k = k].v ELSE Undefined

\* where a new property k is placed by the own-property order
InsertAt(obj, k) ==
    IF IsIndexKey(k)
    THEN 1 + Cardinality({i \in 1..Len(obj) :
                             IsIndexKey(obj[i].k) /\ DigitsValue(obj[i].k) < DigitsValue(k)})
    ELSE Len(obj) + 1

\* obj[k] = v
Put(obj, k, v) ==
    IF HasKey(obj, k)
    THEN [i \in 1..Len(obj) |-> IF obj[i].k = k THEN [k |-> k, v |-> v] ELSE obj[i]]
    ELSE LET p == InsertAt(obj, k)
         IN  SubSeq(obj, 1, p - 1) \o <<[k |-> k, v |-> v]>> \o SubSeq(obj, p, Len(obj))

\* {...a, ...b}
RECURSIVE Spread(_, _)
Spread(a, b) == IF b = <<>> THEN a ELSE Spread(Put(a, Head(b).k, Head(b).v), Tail(b))

\* const { primary_key, ...rest } = obj
OmitPrimaryKey(obj) == SelectSeq(obj, LAMBDA e : e.k # PrimaryKey)

\* Object.values
ObjectValues(obj) == [i \in 1..Len(obj) |-> obj[i].v]

\* Object.fromEntries(Object.entries(obj).slice(0, n))
SliceEntries(obj, n) == SubSeq(obj, 1, IF n < Len(obj) THEN n ELSE Len(obj))

\* ------------------------------------------------------- the remote store

DevId == "devId"

ProdId == "prodId"

StoreIds == {DevId, ProdId}

SheetName == "Sheet1"

\* the title of a second sheet, one that has no cell
BlankName == "Sheet2"

\* a spreadsheet is the sequence of its sheets, each a title and its rows
OneSheet(rows) == << [title |-> SheetName, rows |-> rows] >>

\* a spreadsheet with the sheet and a second, blank sheet
TwoSheets(rows) == << [title |-> SheetName, rows |-> rows], [title |-> BlankName, rows |-> <<>>] >>

\* spreadsheets.get({fields: "sheets.properties.title"}): the titles
Titles(store) == [i \in 1..Len(store) |-> store[i].title]

\* the rows of the sheet a range names
SheetRows(store, title) ==
    IF \E i \in 1..Len(store) : store[i].title = title
    THEN store[CHOOSE i \in 1..Len(store) : store[i].title = title].rows
    ELSE <<>>

\* the spreadsheet after a call has left the sheet with these rows
WithRows(store, title, rows) ==
    [i \in 1..Len(store) |-> IF store[i].title = title THEN [store[i] EXCEPT !.rows = rows]
                                                         ELSE store[i]]

\* a sheet with two columns and two data rows; cells carry surrounding blanks,
\* upper case and a leading zero
PlainSheet ==
    << <<Str(<<"N", " ", "a">>), Str(<<"B">>)>>,
       <<Str(<<"a", "b">>), Str(<<"1">>)>>,
       <<Str(<<" ", "A", "b", " ">>), Str(<<"0", "1">>)>> >>

\* a sheet whose two header cells differ in case only
TwinHeaderSheet ==
    << <<Str(<<"N">>), Str(<<"n">>)>>,
       <<Str(<<"a">>), Str(<<"b">>)>>,
       <<Str(<<"x">>), Str(<<"y">>)>> >>

\* a sheet whose header cells are numerals, with one data row
NumeralHeaderSheet ==
    << <<Str(<<"2">>), Str(<<"1">>)>>,
       <<Str(<<"a">>), Str(<<"b">>)>> >>

\* the sheet of the development spreadsheet
DevSheet ==
    << <<Str(<<"B">>)>>,
       <<Str(<<"2">>)>> >>

ProdSheets == {PlainSheet, TwinHeaderSheet, NumeralHeaderSheet}

EmptyCell == Str(<<>>)

\* a stored cell as spreadsheets.values.get returns it: its text; an unset
\* cell is the empty text
FetchCell(v) == IF v.t = "undefined" THEN EmptyCell ELSE Str(ToStr(v))

RECURSIVE DropTrailingEmpty(_)
DropTrailingEmpty(row) ==
    IF row # <<>> /\ row[Len(row)] = EmptyCell
    THEN DropTrailingEmpty(SubSeq(row, 1, Len(row) - 1))
    ELSE row

\* a fetched row ends at its last non-empty cell
FetchRow(row) == DropTrailingEmpty([i \in 1..Len(row) |-> FetchCell(row[i])])

RECURSIVE DropTrailingEmptyRows(_)
DropTrailingEmptyRows(rows) ==
    IF rows # <<>> /\ rows[Len(rows)] = <<>>
    THEN DropTrailingEmptyRows(SubSeq(rows, 1, Len(rows) - 1))
    ELSE rows

\* spreadsheets.values.get({range: table}): data.values
ValuesGet(rows) == DropTrailingEmptyRows([i \in 1..Len(rows) |-> FetchRow(rows[i])])

\* spreadsheets.values.clear({range: table + "!A2:Z"})
ClearBelowHeader(rows) == IF rows = <<>> THEN <<>> ELSE <<rows[1]>>

\* a stand-in for ClearAll: the first row survives the clear
ClearAllButFirstRow(rows) == SubSeq(rows, 1, IF rows = <<>> THEN 0 ELSE 1)

\* spreadsheets.values.clear({range: table})
ClearAll(rows) == <<>>

\* spreadsheets.values.append({range: table, insertDataOption: "INSERT_ROWS"})
ValuesAppend(rows, newRows) == rows \o newRows

\* spreadsheets.values.batchUpdate({data: [{range: table, values}]}): the
\* values are written from A1 on, over what the cells hold
BatchUpdate(rows, newRows) ==
    LET height == IF Len(rows) > Len(newRows) THEN Len(rows) ELSE Len(newRows)
        old(i) == IF i <= Len(rows) THEN rows[i] ELSE <<>>
        new(i) == IF i <= Len(newRows) THEN newRows[i] ELSE <<>>
        width(i) == IF Len(old(i)) > Len(new(i)) THEN Len(old(i)) ELSE Len(new(i))
    IN  [i \in 1..height |->
            [j \in 1..width(i) |-> IF j <= Len(new(i)) THEN new(i)[j] ELSE old(i)[j]]]

\* ------------------------------------------------------ session: helpers

\* key.replace(/[^a-zA-Z0-9]/g, " ")
\* a clean-up that puts a dash, not a space, where a character is neither
\* alphanumeric nor a space
ReplaceNonAlnumByDash(s) ==
    [i \in 1..Len(s) |-> IF IsAlnum(s[i]) \/ IsSpace(s[i]) THEN s[i] ELSE "-"]

ReplaceNonAlnum(s) == [i \in 1..Len(s) |-> IF IsAlnum(s[i]) THEN s[i] ELSE " "]

\* .replace(/\s+/g, "_"): every maximal run of white space becomes one underscore
RECURSIVE CollapseSpaces(_)
CollapseSpaces(s) ==
    IF s = <<>> THEN <<>>
    ELSE IF IsSpace(Head(s)) THEN <<"_">> \o CollapseSpaces(TrimLeft(s))
    ELSE <<Head(s)>> \o CollapseSpaces(Tail(s))

\* .toLowerCase()
ToLowerCase(s) == [i \in 1..Len(s) |-> ToLowerChar(s[i])]

\* the clean-up of one header cell
Canonicalize(s) == ToLowerCase(CollapseSpaces(ReplaceNonAlnum(s)))

\* this.header = data.values.shift().map(...)
MakeHeader(headerRow) == [i \in 1..Len(headerRow) |-> Canonicalize(headerRow[i].s)]

\* obj[key] = row[i] ? row[i].trim() : ""
CellOf(row, i) ==
    IF i <= Len(row) /\ Truthy(row[i]) THEN Str(Trim(row[i].s)) ELSE EmptyCell

\* this.header.reduce((obj, key, i) => ..., {})
RECURSIVE ReduceHeader(_, _, _, _)
ReduceHeader(hdr, row, i, obj) ==
    IF i > Len(hdr) THEN obj ELSE ReduceHeader(hdr, row, i + 1, Put(obj, hdr[i], CellOf(row, i)))

\* { ...entry, primary_key: index + 1 }
MakeEntry(hdr, row, index) ==
    Put(Spread(<<>>, ReduceHeader(hdr, row, 1, <<>>)), PrimaryKey, Num(index + 1))

\* data.values.map((row, index) => ...) over the rows below the header
MakeEntries(hdr, dataRows) == [i \in 1..Len(dataRows) |-> MakeEntry(hdr, dataRows[i], i - 1)]

\* the callback of filterResults: one row against the query
Matches(row, q) ==
    LET cellValue == Get(row, q.column) IN
    CASE q.operator = "=" -> LooseEquals(cellValue, q.value)
      [] q.operator = "!=" -> ~LooseEquals(cellValue, q.value)
      [] q.operator = ">" -> LessThan(q.value, cellValue)
      [] q.operator = "<" -> LessThan(cellValue, q.value)
      [] q.operator = ">=" -> Comparable(cellValue, q.value) /\ ~LessThan(cellValue, q.value)
      [] q.operator = "<=" -> Comparable(cellValue, q.value) /\ ~LessThan(q.value, cellValue)
      [] q.operator = "like" -> IsString(cellValue) /\ Includes(cellValue.s, ToStr(q.value))
      [] OTHER -> FALSE

\* this.values[this.selectedTable].filter(...)
FilterRows(rows, q) == SelectSeq(rows, LAMBDA r : Matches(r, q))

\* rows.findIndex((r) => r[key] === v), 0 when there is none
FindIndex(rows, key, v) ==
    IF \E i \in 1..Len(rows) : StrictEquals(Get(rows[i], key), v)
    THEN CHOOSE i \in 1..Len(rows) :
            /\ StrictEquals(Get(rows[i], key), v)
            /\ \A j \in 1..(i - 1) : ~StrictEquals(Get(rows[j], key), v)
    ELSE 0

\* rows.splice(index, 1)
Splice(rows, index) == SubSeq(rows, 1, index - 1) \o SubSeq(rows, index + 1, Len(rows))

\* the comparator of orderBy
CompareRows(a, b, column) ==
    LET aValue == Get(a, column)
        bValue == Get(b, column)
    IN  IF IsString(aValue) /\ IsString(bValue) THEN LocaleCompareBase(aValue.s, bValue.s)
        ELSE IF LessThan(aValue, bValue) THEN -1
        ELSE IF LessThan(bValue, aValue) THEN 1
        ELSE 0

\* whether the comparator is a consistent comparison function for these rows;
\* Array.prototype.sort promises a sorted, stable result only when it is
ConsistentOn(rows, column) ==
    \A i, j, k \in 1..Len(rows) :
        LET ab == CompareRows(rows[i], rows[j], column)
            bc == CompareRows(rows[j], rows[k], column)
            ac == CompareRows(rows[i], rows[k], column)
        IN  /\ (ab < 0) = (CompareRows(rows[j], rows[i], column) > 0)
            /\ (ab = 0 /\ bc = 0) => ac = 0
            /\ (ab < 0 /\ bc <= 0) => ac < 0
            /\ (ab <= 0 /\ bc < 0) => ac < 0

\* a stand-in for InsertSorted: the row is put before the rows it ties with
RECURSIVE InsertBeforeTies(_, _, _)
InsertBeforeTies(sorted, row, column) ==
    IF sorted = <<>> THEN <<row>>
    ELSE IF CompareRows(sorted[Len(sorted)], row, column) < 0 THEN Append(sorted, row)
    ELSE Append(InsertBeforeTies(SubSeq(sorted, 1, Len(sorted) - 1), row, column),
                sorted[Len(sorted)])

\* one row put into a sorted sequence behind every row that does not compare greater
RECURSIVE InsertSorted(_, _, _)
InsertSorted(sorted, row, column) ==
    IF sorted = <<>> THEN <<row>>
    ELSE IF CompareRows(sorted[Len(sorted)], row, column) <= 0 THEN Append(sorted, row)
    ELSE Append(InsertSorted(SubSeq(sorted, 1, Len(sorted) - 1), row, column), sorted[Len(sorted)])

\* this.results.sort(comparator) with a consistent comparator: the stable sort
RECURSIVE StableSort(_, _)
StableSort(rows, column) ==
    IF rows = <<>> THEN <<>>
    ELSE InsertSorted(StableSort(SubSeq(rows, 1, Len(rows) - 1), column), rows[Len(rows)], column)

\* Array.prototype.reverse
Reverse(rows) == [i \in 1..Len(rows) |-> rows[Len(rows) + 1 - i]]

\* header.map((col) => row[col] || "")
RowArray(hdr, row) ==
    [i \in 1..Len(hdr) |-> IF Truthy(Get(row, hdr[i])) THEN Get(row, hdr[i]) ELSE EmptyCell]

\* rows.map((row) => this.header.map((col) => row[col] || ""))
AllRowsArray(hdr, rows) == [i \in 1..Len(rows) |-> RowArray(hdr, rows[i])]

\* the body of the forEach callback of save(): the result is merged into the
\* base row with the same primary_key, and the row is cut to header.length entries
MergeResult(vals, hdr, result) ==
    LET index == FindIndex(vals, PrimaryKey, Get(result, PrimaryKey)) IN
    IF index = 0 THEN vals
    ELSE [vals EXCEPT ![index] =
             SliceEntries(Spread(vals[index], OmitPrimaryKey(result)), Len(hdr))]

\* this.results.forEach(...) of save(), from position i on; `same` tells that
\* results and the base snapshot are one array, so that a replaced base row is
\* the row the loop visits later
RECURSIVE Reconcile(_, _, _, _, _)
Reconcile(vals, res, hdr, same, i) ==
    IF i > Len(res) THEN vals
    ELSE LET merged == MergeResult(vals, hdr, res[i])
         IN  Reconcile(merged, IF same THEN merged ELSE res, hdr, same, i + 1)

\* the header row as it is written: an array of strings
HeaderRow(hdr) == [i \in 1..Len(hdr) |-> Str(hdr[i])]

\* updatedValues of updateSheets(): the header, then Object.values of every base
\* row without its primary_key
UpdatedValues(vals, hdr) ==
    <<HeaderRow(hdr)>> \o [i \in 1..Len(vals) |-> ObjectValues(OmitPrimaryKey(vals[i]))]

\* if (direction === "desc") this.results.reverse()
Directed(rows, direction) == IF direction = "desc" THEN Reverse(rows) ELSE rows

\* ----------------------------------------------------------------- state

VARIABLES
    mode,           \* this.mode
    id,             \* this.id: the spreadsheet addressed by remote calls
    client,         \* this.client is set (authenticated)
    tables,         \* this.tables: [defined, names]
    selectedTable,  \* this.selectedTable
    header,         \* this.header
    query,          \* this.query
    values,         \* this.values: [table, entries], table "" when it has no key
    results,        \* this.results
    aliased,        \* this.results and this.values[table] are the same array
    remote,         \* the sheets of each spreadsheet
    pending,        \* the write-backs started and not awaited: [start, calls]
    steps,          \* operations performed so far
    lastOp          \* the last operation performed and its arguments

vars == <<mode, id, client, tables, selectedTable, header, query, values, results,
          aliased, remote, pending, steps, lastOp>>

\* no write-back is in flight
NoPending == [start |-> <<>>, calls |-> <<>>]

\* a remote call as the store receives it
Call(api, store, range) == [api |-> api, id |-> store, range |-> range]

\* the range that is the whole sheet, and the range below its first row
WholeSheet(table) == <<table>>

BelowHeader(table) == <<table, "A2:Z">>

\* the rows of the selected table in the spreadsheet the session addresses
Sheet == SheetRows(remote[id], selectedTable)

\* the detail a failing remote call reports
StoreDetail == "quotaExceeded"

\* the messages of the errors the session throws, as the parts they are built of
NoDataError(table) == <<"No data found in the table: '", table, "'.">>

SetValuesError(table, message) == <<"Failed to set values for table '", table, "': ">> \o message

SelectError(table, message) == <<"Error selecting table '", table, "': ">> \o message

InitError == <<"Error initializing Sheets object.">>

InsertError == <<"Failed to insert/upsert row.">>

SaveError == <<"Failed to save data.">>

\* this.query = ""
NoQuery == [column |-> <<>>, operator |-> "", value |-> Undefined]

\* this.values = []
NoValues == [table |-> "", entries |-> <<>>]

\* lastOp: the operation, its arguments (the row of get() it was called on, the
\* fields or record, the column or unique key, the query, the direction), the
\* base snapshot before a delete, the length of the view before the operation,
\* for an upsert the number of rows of the view that had the record's key and
\* whether it repeats the upsert before it, whether only where() calls came
\* since the table was loaded (after the operation, and before it), how many
\* records upserts have pushed since the table was loaded, the remote calls
\* the operation issued, whether it returned (resolved) or threw (rejected),
\* the parts of the message of the error it threw, the record it returned and
\* for first() whether the operation before it was first() too, and which of
\* the remote calls failed (0 when none did)
\* an argument of a call that was not given
NoArg == [t |-> "undefined", name |-> ""]

NoInput == [given |-> FALSE, table |-> NoArg, column |-> Undefined, direction |-> NoArg]

NoEdit == [set |-> FALSE, row |-> <<>>, arg |-> <<>>]

NoOp == [op |-> "none", row |-> <<>>, arg |-> <<>>, key |-> <<>>, base |-> <<>>,
         query |-> NoQuery, direction |-> "", before |-> 0, n |-> 0, repeat |-> FALSE,
         fresh |-> FALSE, wasFresh |-> FALSE, pushed |-> 0,
         name |-> "", calls |-> <<>>, ok |-> TRUE, error |-> <<>>,
         returned |-> [defined |-> FALSE, row |-> <<>>], again |-> FALSE, failed |-> 0,
         input |-> NoInput, edit |-> NoEdit, source |-> ""]

\* this.values[this.selectedTable] is defined
HasValues == selectedTable # "" /\ values.table = selectedTable

\* constructor (mode defaults to "Production")
\* the session as the constructor leaves it when it is given the mode m
ConstructedAs(m) ==
    /\ mode = m
    /\ id = IF m = "Development" THEN DevId ELSE ProdId
    /\ client = FALSE
    /\ tables = [defined |-> FALSE, names |-> <<>>]
    /\ selectedTable = ""
    /\ header = <<>>
    /\ query = NoQuery
    /\ values = NoValues
    /\ results = <<>>
    /\ aliased = FALSE
    /\ pending = NoPending
    /\ steps = 0
    /\ lastOp = NoOp

Constructed == ConstructedAs("Production")

\* a new session, and spreadsheets of one sheet
Init ==
    /\ Constructed
    /\ \E sheet \in ProdSheets :
          remote = [s \in StoreIds |-> OneSheet(IF s = ProdId THEN sheet ELSE DevSheet)]

\* an operation is counted and remembered
Record(op) ==
    /\ steps < MaxSteps
    /\ steps' = steps + 1
    /\ lastOp' = [op EXCEPT !.before = Len(results),
                            !.wasFresh = lastOp.fresh,
                            !.fresh = (op.op = "table") \/ (op.op = "where" /\ lastOp.fresh),
                            !.pushed = IF op.op = "table" THEN 0
                                       ELSE IF op.op = "upsert" /\ op.n = 0
                                       THEN lastOp.pushed + 1
                                       ELSE lastOp.pushed,
                            !.again = (op.op = "first" /\ lastOp.op = "first"),
                            !.edit = IF op.op = "where" /\ lastOp.op = "update"
                                     THEN [set |-> TRUE, row |-> lastOp.row, arg |-> lastOp.arg]
                                     ELSE NoEdit,
                            !.source = IF op.op = "table" /\ op.ok THEN id ELSE lastOp.source,
                            !.repeat = /\ op.op = "upsert"
                                       /\ lastOp.op = "upsert"
                                       /\ lastOp.arg = op.arg
                                       /\ lastOp.key = op.key]

\* the current view is replaced slot by slot or in place: a base snapshot that
\* is the same array changes with it
SetResultsInPlace(rows) ==
    /\ results' = rows
    /\ values' = IF aliased THEN [values EXCEPT !.entries = rows] ELSE values
    /\ UNCHANGED aliased

\* ---------------------------------------------------------------- inputs

\* the queries passed to where()
WhereQueries ==
    { [column |-> <<"b">>, operator |-> "=", value |-> Str(<<"0", "1">>)],
      [column |-> <<"b">>, operator |-> "=", value |-> Num(1)],
      [column |-> <<"n">>, operator |-> "like", value |-> Str(<<"x">>)],
      [column |-> <<"n", "_", "a">>, operator |-> "like", value |-> Str(<<"A">>)] }

\* the columns passed to orderBy()
OrderColumns == { <<"b">>, <<"n", "_", "a">> }

Directions == {"asc", "desc"}

\* the field sets passed to update()
UpdateFields == { << [k |-> <<"b">>, v |-> Str(<<"9">>)] >> }

\* the records passed to insert()
InsertRecords ==
    { << [k |-> <<"n", "_", "a">>, v |-> Str(<<"y">>)], [k |-> <<"b">>, v |-> Str(<<"2">>)] >> }

\* the records passed to insert() with {upsert: true}
UpsertRecords == { << [k |-> <<"b">>, v |-> Str(<<"1">>)], [k |-> <<"x">>, v |-> Str(<<"y">>)] >> }

\* the unique keys passed to an upsert
UniqueKeys == { <<"b">> }

\* --------------------------------------------------------------- actions

\* init(): the client is authenticated and the sheet titles are listed
InitSession ==
    /\ client' = TRUE
    /\ tables' = [defined |-> TRUE, names |-> Titles(remote[id])]
    /\ UNCHANGED <<mode, id, selectedTable, header, query, values, results, aliased,
                   remote, pending, steps, lastOp>>

\* setMode({development})
\* the id setMode() switches to, whatever the id was: devId or prodId
ModeIdKept(development) == id

ModeId(development) == IF development THEN DevId ELSE ProdId

SetMode(development) ==
    /\ Record([NoOp EXCEPT !.op = "setMode"])
    /\ mode' = IF development THEN "Development" ELSE "Production"
    /\ id' = ModeId(development)
    /\ UNCHANGED <<client, tables, selectedTable, header, query, values, results, aliased,
                   remote, pending>>

\* table(name) with a name of the catalog: the table is selected and setValues()
\* fetches it; a fetch that returns no row throws with the table still selected
Table(name) ==
    /\ client
    /\ tables.defined /\ \E i \in 1..Len(tables.names) : tables.names[i] = name
    /\ LET data == ValuesGet(SheetRows(remote[id], name)) IN
       IF data = <<>>
       THEN /\ Record([NoOp EXCEPT !.op = "table", !.name = name, !.ok = FALSE,
                                   !.calls = <<Call("values.get", id, WholeSheet(name))>>,
                                   !.error = SelectError(name, SetValuesError(name, NoDataError(name)))])
            /\ UNCHANGED <<header, values, results, aliased>>
       ELSE LET hdr == MakeHeader(Head(data))
                entries == MakeEntries(hdr, Tail(data))
            IN  /\ Record([NoOp EXCEPT !.op = "table", !.name = name,
                                       !.calls = <<Call("values.get", id, WholeSheet(name))>>])
                /\ header' = hdr
                /\ values' = [table |-> name, entries |-> entries]
                /\ results' = entries
                /\ aliased' = TRUE
    /\ selectedTable' = name
    /\ UNCHANGED <<mode, id, client, tables, query, remote, pending>>

\* a stand-in for the rows filterResults() scans: the current view
FilterSourceView == results

\* the rows filterResults() scans: this.values[this.selectedTable]
FilterSource == values.entries

\* where(q) with a valid column and operator: the query is stored and the view
\* becomes the filtered base snapshot, a new array; with no base snapshot for
\* the selected table the filter throws after the query is stored
Where(q) ==
    /\ Record([NoOp EXCEPT !.op = "where", !.query = q, !.ok = HasValues,
                           !.error = IF HasValues THEN <<>> ELSE <<"TypeError">>])
    /\ query' = q
    /\ IF HasValues
       THEN /\ results' = FilterRows(FilterSource, q)
            /\ aliased' = FALSE
       ELSE UNCHANGED <<results, aliased>>
    /\ UNCHANGED <<mode, id, client, tables, selectedTable, header, values, remote, pending>>

\* orderBy({column, direction}): the view is sorted in place and reversed for
\* "desc"; with an inconsistent comparator the order is implementation-defined
OrderBy(column, direction) ==
    /\ Record([NoOp EXCEPT !.op = "orderBy", !.key = column, !.direction = direction])
    /\ IF ConsistentOn(results, column)
       THEN SetResultsInPlace(Directed(StableSort(results, column), direction))
       ELSE \E p \in [1..Len(results) -> 1..Len(results)] :
               /\ \A i, j \in 1..Len(results) : i # j => p[i] # p[j]
               /\ SetResultsInPlace(
                      Directed([i \in 1..Len(results) |-> results[p[i]]], direction))
    /\ UNCHANGED <<mode, id, client, tables, selectedTable, header, query, remote, pending>>

\* a stand-in for EditCalls: the edit is sent to the store at once
EditCallsWrite == <<Call("values.batchUpdate", id, WholeSheet(selectedTable))>>

\* the remote calls of _updateRow and _deleteRow: none
EditCalls == <<>>

\* _updateRow(row, updatedFields) for row i of get()
UpdateRow(i, updatedFields) ==
    /\ i \in 1..Len(results)
    /\ Record([NoOp EXCEPT !.op = "update", !.row = results[i], !.arg = updatedFields,
                           !.calls = EditCalls])
    /\ LET index == FindIndex(results, PrimaryKey, Get(results[i], PrimaryKey)) IN
       SetResultsInPlace([results EXCEPT ![index] = Spread(results[index], updatedFields)])
    /\ UNCHANGED <<mode, id, client, tables, selectedTable, header, query, remote, pending>>

\* _deleteRow(row) for row i of get()
DeleteRow(i) ==
    /\ i \in 1..Len(results)
    /\ Record([NoOp EXCEPT !.op = "delete", !.row = results[i], !.base = values.entries,
                           !.calls = EditCalls])
    /\ LET index == FindIndex(results, PrimaryKey, Get(results[i], PrimaryKey)) IN
       SetResultsInPlace(Splice(results, index))
    /\ UNCHANGED <<mode, id, client, tables, selectedTable, header, query, remote, pending>>

\* insert(newRow): one row is appended to the sheet, then pushed to the view
\* with primary_key = results.length + 1
Insert(newRow) ==
    /\ client
    /\ selectedTable # ""
    /\ header # <<>>
    /\ Len(results) < MaxRows
    /\ Record([NoOp EXCEPT !.op = "insert", !.arg = newRow,
                           !.calls = <<Call("values.append", id, WholeSheet(selectedTable))>>])
    /\ remote' = [remote EXCEPT ![id] =
                     WithRows(@, selectedTable, ValuesAppend(Sheet, <<RowArray(header, newRow)>>))]
    /\ SetResultsInPlace(Append(results, Put(Spread(<<>>, newRow), PrimaryKey,
                                             Num(Len(results) + 1))))
    /\ UNCHANGED <<mode, id, client, tables, selectedTable, header, query, pending>>

\* a stand-in for Upserted: the record is pushed whether or not a row has its key
UpsertedAlwaysPushed(rows, newRow, uniqueKey) == Append(rows, newRow)

\* the view after the merge-or-push of an upsert
Upserted(rows, newRow, uniqueKey) ==
    LET existingIndex == FindIndex(rows, uniqueKey, Get(newRow, uniqueKey)) IN
    IF existingIndex # 0
    THEN [rows EXCEPT ![existingIndex] = Spread(rows[existingIndex], newRow)]
    ELSE Append(rows, newRow)

\* how many rows have the value v under the key
CountKey(rows, key, v) ==
    Cardinality({i \in 1..Len(rows) : StrictEquals(Get(rows[i], key), v)})

\* the rows an upsert appends to the cleared sheet
UpsertRows(hdr, rows) == AllRowsArray(hdr, rows)

\* insert(newRow, {upsert: true, uniqueKey}): the record is merged into the view
\* or pushed, the sheet is cleared below the header and rows are appended
Upsert(newRow, uniqueKey) ==
    /\ client
    /\ selectedTable # ""
    /\ header # <<>>
    /\ Len(Upserted(results, newRow, uniqueKey)) <= MaxRows
    /\ Record([NoOp EXCEPT !.op = "upsert", !.arg = newRow, !.key = uniqueKey,
                           !.n = CountKey(results, uniqueKey, Get(newRow, uniqueKey)),
                           !.calls = <<Call("values.clear", id, BelowHeader(selectedTable)),
                                       Call("values.append", id, WholeSheet(selectedTable))>>])
    /\ LET rows == Upserted(results, newRow, uniqueKey) IN
       /\ SetResultsInPlace(rows)
       /\ remote' = [remote EXCEPT ![id] =
                        WithRows(@, selectedTable,
                                 ValuesAppend(ClearBelowHeader(Sheet), UpsertRows(header, rows)))]
    /\ UNCHANGED <<mode, id, client, tables, selectedTable, header, query, pending>>

\* a stand-in for NothingToSave: save() goes on with an empty view
NothingToSaveNever == FALSE

\* if (!this.results.length) of save()
NothingToSave == results = <<>>

\* the base snapshot after the reconciliation of save()
Reconciled == Reconcile(values.entries, results, header, aliased, 1)

\* save() with a view that is not empty and a base snapshot for the selected
\* table: the view is reconciled into the base snapshot and updateSheets()
\* clears the sheet and writes the header and the base rows
Save ==
    /\ client
    /\ ~NothingToSave
    /\ HasValues
    /\ Record([NoOp EXCEPT !.op = "save",
                           !.calls = <<Call("values.clear", id, WholeSheet(selectedTable)),
                                       Call("values.batchUpdate", id, WholeSheet(selectedTable))>>])
    /\ values' = [values EXCEPT !.entries = Reconciled]
    /\ results' = IF aliased THEN Reconciled ELSE results
    /\ remote' = [remote EXCEPT ![id] =
                     WithRows(@, selectedTable,
                              BatchUpdate(ClearAll(Sheet), UpdatedValues(Reconciled, header)))]
    /\ UNCHANGED <<mode, id, client, tables, selectedTable, header, query, aliased, pending>>

\* save() with an empty view returns at once
SaveNothing ==
    /\ NothingToSave
    /\ Record([NoOp EXCEPT !.op = "saveNothing"])
    /\ UNCHANGED <<mode, id, client, tables, selectedTable, header, query, values, results,
                   aliased, remote, pending>>

Next ==
    \/ InitSession
    \/ Table(SheetName)
    \/ \E q \in WhereQueries : Where(q)
    \/ \E column \in OrderColumns, direction \in Directions : OrderBy(column, direction)
    \/ \E i \in 1..MaxRows, updatedFields \in UpdateFields : UpdateRow(i, updatedFields)
    \/ \E i \in 1..MaxRows : DeleteRow(i)
    \/ \E newRow \in InsertRecords : Insert(newRow)
    \/ \E newRow \in UpsertRecords, uniqueKey \in UniqueKeys : Upsert(newRow, uniqueKey)
    \/ Save
    \/ SaveNothing

Spec == Init /\ [][Next]_vars

\* records passed to insert(): with strings, with the number 0, with a field
\* that is no header column and without one that is
ShapeRecords ==
    InsertRecords \cup
    { << [k |-> <<"b">>, v |-> Num(0)], [k |-> <<"x">>, v |-> Str(<<"y">>)] >>,
      << [k |-> <<"n">>, v |-> Str(<<"a">>)] >> }

\* sessions that load a table, filter it, insert records and save
NextInsert ==
    \/ InitSession
    \/ Table(SheetName)
    \/ \E q \in WhereQueries : Where(q)
    \/ \E newRow \in ShapeRecords : Insert(newRow)
    \/ Save
    \/ SaveNothing

SpecInsert == Init /\ [][NextInsert]_vars

\* one element of get(): a new object with the properties of the row
GetRow(row) == Spread(<<>>, row)

\* row.field = value on element i of get(): the caller's copy is changed, the
\* session holds no reference to it
AssignField(i, fields) ==
    /\ i \in 1..Len(results)
    /\ Record([NoOp EXCEPT !.op = "assign", !.row = Spread(GetRow(results[i]), fields),
                           !.arg = fields])
    /\ UNCHANGED <<mode, id, client, tables, selectedTable, header, query, values, results,
                   aliased, remote, pending>>

\* a stand-in for AfterFirst: the last record is taken off the view (pop)
AfterPop(rows) == IF rows = <<>> THEN rows ELSE SubSeq(rows, 1, Len(rows) - 1)

\* the view after first(): this.results is read, not changed
AfterFirst(rows) == rows

\* what first() returns: this.results[0], or undefined for an empty view
FirstOf(rows) ==
    IF Len(rows) > 0 THEN [defined |-> TRUE, row |-> rows[1]]
                     ELSE [defined |-> FALSE, row |-> <<>>]

\* first()
First ==
    /\ Record([NoOp EXCEPT !.op = "first", !.returned = FirstOf(results)])
    /\ SetResultsInPlace(AfterFirst(results))
    /\ UNCHANGED <<mode, id, client, tables, selectedTable, header, query, remote, pending>>

\* sessions that load a table, filter it, read it through get() and first(),
\* delete rows and save
NextAccess ==
    \/ InitSession
    \/ Table(SheetName)
    \/ \E q \in WhereQueries : Where(q)
    \/ \E i \in 1..MaxRows : DeleteRow(i)
    \/ \E i \in 1..MaxRows, fields \in UpdateFields : AssignField(i, fields)
    \/ First
    \/ Save
    \/ SaveNothing

SpecAccess == Init /\ [][NextAccess]_vars

\* every write-back that was started has completed
AllDone == \A k \in 1..Len(pending.calls) : pending.calls[k].stage = "done"

\* a write-back is started: it joins those in flight, or is the first of a new
\* group when none is in flight
Started(call) ==
    IF AllDone THEN [start |-> Sheet, calls |-> <<call>>]
               ELSE [pending EXCEPT !.calls = Append(@, call)]

\* save() is called and not awaited: it runs up to the await of the clear in
\* updateSheets(), with the view reconciled and updatedValues prepared
StartSave ==
    /\ client
    /\ ~NothingToSave
    /\ HasValues
    /\ AllDone \/ Len(pending.calls) < MaxInFlight
    /\ Record([NoOp EXCEPT !.op = "startSave"])
    /\ values' = [values EXCEPT !.entries = Reconciled]
    /\ results' = IF aliased THEN Reconciled ELSE results
    /\ pending' = Started([op |-> "save", stage |-> "clear",
                           rows |-> UpdatedValues(Reconciled, header)])
    /\ UNCHANGED <<mode, id, client, tables, selectedTable, header, query, aliased, remote>>

\* insert(newRow, {upsert: true, uniqueKey}) is called and not awaited: it runs
\* up to the await of the clear, with the record merged into the view or pushed
StartUpsert(newRow, uniqueKey) ==
    /\ client
    /\ selectedTable # ""
    /\ header # <<>>
    /\ Len(Upserted(results, newRow, uniqueKey)) <= MaxRows
    /\ AllDone \/ Len(pending.calls) < MaxInFlight
    /\ Record([NoOp EXCEPT !.op = "startUpsert", !.arg = newRow, !.key = uniqueKey])
    /\ SetResultsInPlace(Upserted(results, newRow, uniqueKey))
    /\ pending' = Started([op |-> "upsert", stage |-> "clear", rows |-> <<>>])
    /\ UNCHANGED <<mode, id, client, tables, selectedTable, header, query, remote>>

\* the sheet after the clear of a write-back
Cleared(call, rows) == IF call.op = "save" THEN ClearAll(rows) ELSE ClearBelowHeader(rows)

\* the sheet after the write of a write-back
Written(call, rows) ==
    IF call.op = "save" THEN BatchUpdate(rows, call.rows) ELSE ValuesAppend(rows, call.rows)

\* the store performs the next remote call of write-back k and the write-back
\* resumes: after its clear an upsert maps the view, as it is then, to rows and
\* issues the append; after its write the call is complete
RemoteStep(k) ==
    /\ k \in 1..Len(pending.calls)
    /\ pending.calls[k].stage # "done"
    /\ LET call == pending.calls[k] IN
       IF call.stage = "clear"
       THEN /\ remote' = [remote EXCEPT ![id] = WithRows(@, selectedTable, Cleared(call, Sheet))]
            /\ pending' = [pending EXCEPT !.calls[k] =
                              [call EXCEPT !.stage = "write",
                                           !.rows = IF call.op = "upsert"
                                                    THEN UpsertRows(header, results)
                                                    ELSE call.rows]]
       ELSE /\ remote' = [remote EXCEPT ![id] = WithRows(@, selectedTable, Written(call, Sheet))]
            /\ pending' = [pending EXCEPT !.calls[k] = [call EXCEPT !.stage = "done"]]
    /\ UNCHANGED <<mode, id, client, tables, selectedTable, header, query, values, results,
                   aliased, steps, lastOp>>

\* sessions whose caller starts write-backs without awaiting them
NextOverlap ==
    \/ InitSession
    \/ Table(SheetName)
    \/ \E q \in WhereQueries : Where(q)
    \/ StartSave
    \/ \E newRow \in UpsertRecords, uniqueKey \in UniqueKeys : StartUpsert(newRow, uniqueKey)
    \/ \E k \in 1..MaxInFlight : RemoteStep(k)

SpecOverlap == Init /\ [][NextOverlap]_vars

\* the calls of init(): the JWT authorization and the listing of the sheets
AuthCall == Call("auth.authorize", "", <<>>)

ListCall == Call("spreadsheets.get", id, <<>>)

\* init() when the authorization fails: _initClient() logs the error and
\* returns; setTables() lists the sheets through the client of an earlier
\* init(), or throws at once when there is none
InitAuthFails ==
    /\ Record([NoOp EXCEPT !.op = "init", !.failed = 1,
                           !.calls = IF client THEN <<AuthCall, ListCall>> ELSE <<AuthCall>>,
                           !.ok = client,
                           !.error = IF client THEN <<>> ELSE InitError])
    /\ tables' = IF client THEN [defined |-> TRUE, names |-> Titles(remote[id])] ELSE tables
    /\ UNCHANGED <<mode, id, client, selectedTable, header, query, values, results, aliased,
                   remote, pending>>

\* init() when the listing of the sheets fails
InitListFails ==
    /\ Record([NoOp EXCEPT !.op = "init", !.failed = 2, !.calls = <<AuthCall, ListCall>>,
                           !.ok = FALSE, !.error = InitError])
    /\ client' = TRUE
    /\ UNCHANGED <<mode, id, tables, selectedTable, header, query, values, results, aliased,
                   remote, pending>>

\* table(name) with a name of the catalog when the fetch fails: the table
\* stays selected
TableFetchFails(name) ==
    /\ client
    /\ tables.defined /\ \E i \in 1..Len(tables.names) : tables.names[i] = name
    /\ Record([NoOp EXCEPT !.op = "table", !.name = name, !.failed = 1, !.ok = FALSE,
                           !.calls = <<Call("values.get", id, WholeSheet(name))>>,
                           !.error = SelectError(name, SetValuesError(name, <<StoreDetail>>))])
    /\ selectedTable' = name
    /\ UNCHANGED <<mode, id, client, tables, header, query, values, results, aliased,
                   remote, pending>>

\* insert(newRow) when the append fails: nothing was pushed yet
InsertAppendFails(newRow) ==
    /\ client
    /\ selectedTable # ""
    /\ header # <<>>
    /\ Record([NoOp EXCEPT !.op = "insert", !.arg = newRow, !.failed = 1, !.ok = FALSE,
                           !.calls = <<Call("values.append", id, WholeSheet(selectedTable))>>,
                           !.error = InsertError])
    /\ UNCHANGED <<mode, id, client, tables, selectedTable, header, query, values, results,
                   aliased, remote, pending>>

\* insert(newRow, {upsert: true, uniqueKey}) when its clear (failed = 1) or its
\* append (failed = 2) fails: the view has the record already, and the rows
\* below the header are gone when the clear went through
UpsertFails(newRow, uniqueKey, failed) ==
    /\ client
    /\ selectedTable # ""
    /\ header # <<>>
    /\ Len(Upserted(results, newRow, uniqueKey)) <= MaxRows
    /\ Record([NoOp EXCEPT !.op = "upsert", !.arg = newRow, !.key = uniqueKey,
                           !.n = CountKey(results, uniqueKey, Get(newRow, uniqueKey)),
                           !.failed = failed, !.ok = FALSE, !.error = InsertError,
                           !.calls = SubSeq(<<Call("values.clear", id, BelowHeader(selectedTable)),
                                              Call("values.append", id, WholeSheet(selectedTable))>>,
                                            1, failed)])
    /\ SetResultsInPlace(Upserted(results, newRow, uniqueKey))
    /\ remote' = IF failed = 1 THEN remote
                 ELSE [remote EXCEPT ![id] = WithRows(@, selectedTable, ClearBelowHeader(Sheet))]
    /\ UNCHANGED <<mode, id, client, tables, selectedTable, header, query, pending>>

\* save() when the clear (failed = 1) or the batch write (failed = 2) of
\* updateSheets() fails: the view is reconciled already, and the sheet is
\* left as the clear left it
SaveFails(failed) ==
    /\ client
    /\ ~NothingToSave
    /\ HasValues
    /\ Record([NoOp EXCEPT !.op = "save", !.failed = failed, !.ok = FALSE, !.error = SaveError,
                           !.calls = SubSeq(<<Call("values.clear", id, WholeSheet(selectedTable)),
                                              Call("values.batchUpdate", id, WholeSheet(selectedTable))>>,
                                            1, failed)])
    /\ values' = [values EXCEPT !.entries = Reconciled]
    /\ results' = IF aliased THEN Reconciled ELSE results
    /\ remote' = IF failed = 1 THEN remote
                 ELSE [remote EXCEPT ![id] = WithRows(@, selectedTable, ClearAll(Sheet))]
    /\ UNCHANGED <<mode, id, client, tables, selectedTable, header, query, aliased, pending>>

\* save() with a view that is not empty and no base snapshot for the selected
\* table throws before any remote call
SaveInvalid ==
    /\ ~NothingToSave
    /\ ~HasValues
    /\ Record([NoOp EXCEPT !.op = "save", !.ok = FALSE, !.error = SaveError])
    /\ UNCHANGED <<mode, id, client, tables, selectedTable, header, query, values, results,
                   aliased, remote, pending>>

\* a new session, and a production spreadsheet with a second, blank sheet
InitTwoSheets ==
    /\ Constructed
    /\ \E sheet \in ProdSheets :
          remote = [s \in StoreIds |-> IF s = ProdId THEN TwoSheets(sheet) ELSE OneSheet(DevSheet)]

\* sessions whose remote calls may fail
NextFail ==
    \/ InitSession
    \/ \E name \in {SheetName, BlankName} : Table(name)
    \/ \E q \in WhereQueries : Where(q)
    \/ \E newRow \in InsertRecords : Insert(newRow)
    \/ \E newRow \in UpsertRecords, uniqueKey \in UniqueKeys : Upsert(newRow, uniqueKey)
    \/ Save
    \/ SaveNothing
    \/ InitAuthFails
    \/ InitListFails
    \/ \E name \in {SheetName, BlankName} : TableFetchFails(name)
    \/ \E newRow \in InsertRecords : InsertAppendFails(newRow)
    \/ \E newRow \in UpsertRecords, uniqueKey \in UniqueKeys, failed \in 1..2 :
          UpsertFails(newRow, uniqueKey, failed)
    \/ \E failed \in 1..2 : SaveFails(failed)
    \/ SaveInvalid

SpecFail == InitTwoSheets /\ [][NextFail]_vars

\* ------------------------------------------------- argument validation

\* calls whose arguments need not be valid: a table name, a column, an operator
\* and a direction as the caller gave them
TableArgs ==
    { [t |-> "string", name |-> SheetName], [t |-> "string", name |-> "Sheet9"],
      [t |-> "string", name |-> ""], [t |-> "number", name |-> ""] }

ColumnArgs == { Str(<<"b">>), Str(<<>>), Num(1), Undefined }

OperatorArgs == {"=", "like", "~", "=="}

DirectionArgs ==
    { [t |-> "string", name |-> "asc"], [t |-> "string", name |-> "desc"],
      [t |-> "string", name |-> "DESC"], [t |-> "string", name |-> "up"],
      [t |-> "number", name |-> ""], NoArg }

\* toLowerCase() of a direction
LowerCaseName(name) ==
    CASE name = "ASC" -> "asc"
      [] name = "DESC" -> "desc"
      [] name = "Desc" -> "desc"
      [] OTHER -> name

\* !table || typeof table !== "string"
ValidTableName(table) == table.t = "string" /\ table.name # ""

\* this.tables && this.tables.includes(table)
InCatalog(name) == tables.defined /\ \E i \in 1..Len(tables.names) : tables.names[i] = name

\* !column || typeof column !== "string"
ValidColumn(column) == Truthy(column) /\ column.t = "string"

\* a filter that also takes "~" as an operator
SupportedOperatorsAndTilde == {"=", "!=", ">", "<", ">=", "<=", "like", "~"}

SupportedOperators == {"=", "!=", ">", "<", ">=", "<=", "like"}

\* direction = "asc" when the caller gave none
DirectionGiven(direction) ==
    IF direction.t = "undefined" THEN [t |-> "string", name |-> "asc"] ELSE direction

\* ["asc", "desc"].includes(direction.toLowerCase()); toLowerCase of a value
\* that is not a string throws as well
ValidDirection(direction) ==
    direction.t = "string" /\ LowerCaseName(direction.name) \in {"asc", "desc"}

\* a call that throws before it assigned or sent anything
Rejected(op, message) ==
    /\ Record([op EXCEPT !.ok = FALSE, !.error = message])
    /\ UNCHANGED <<mode, id, client, tables, selectedTable, header, query, values, results,
                   aliased, remote, pending>>

\* table(table), its validation included
TableChecked(table) ==
    IF ValidTableName(table) /\ InCatalog(table.name)
    THEN Table(table.name)
    ELSE Rejected([NoOp EXCEPT !.op = "table", !.name = table.name,
                               !.input = [NoInput EXCEPT !.given = TRUE, !.table = table]],
                  SelectError(table.name,
                              IF ValidTableName(table)
                              THEN <<"Table '", table.name, "' not found in available tables.">>
                              ELSE <<"Invalid table name provided.">>))

\* where({column, operator, value}), its validation included
WhereChecked(column, operator, value) ==
    IF ValidColumn(column) /\ operator \in SupportedOperators
    THEN Where([column |-> column.s, operator |-> operator, value |-> value])
    ELSE Rejected([NoOp EXCEPT !.op = "where",
                               !.query = [column |-> column.s, operator |-> operator,
                                          value |-> value],
                               !.input = [NoInput EXCEPT !.given = TRUE, !.column = column]],
                  IF ValidColumn(column)
                  THEN <<"Unsupported operator '", operator, "'.">>
                  ELSE <<"Invalid column name provided.">>)

\* orderBy({column, direction}), its validation included
OrderByChecked(column, direction) ==
    IF ValidColumn(column) /\ ValidDirection(DirectionGiven(direction))
    THEN OrderBy(column.s, DirectionGiven(direction).name)
    ELSE Rejected([NoOp EXCEPT !.op = "orderBy", !.key = column.s,
                               !.direction = DirectionGiven(direction).name,
                               !.input = [NoInput EXCEPT !.given = TRUE, !.column = column,
                                                         !.direction = direction]],
                  IF ~ValidColumn(column)
                  THEN <<"Invalid column name provided.">>
                  ELSE IF DirectionGiven(direction).t = "string"
                  THEN <<"Invalid direction. Use \"asc\" or \"desc\".">>
                  ELSE <<"TypeError">>)

NextValidate ==
    \/ InitSession
    \/ \E table \in TableArgs : TableChecked(table)
    \/ \E column \in ColumnArgs, operator \in OperatorArgs :
          WhereChecked(column, operator, Str(<<"0", "1">>))
    \/ \E column \in ColumnArgs, direction \in DirectionArgs : OrderByChecked(column, direction)

SpecValidate == Init /\ [][NextValidate]_vars

\* ------------------------------------------------ header canonicalization

HeaderChars == {"N", "a", "1", " ", "-", "_"}

\* the header cells a sheet can hold, up to MaxHeaderLen characters
RawCells == UNION { [1..n -> HeaderChars] : n \in 0..MaxHeaderLen }

\* the header row as fetched, before it is cleaned up
InitHeaderRow ==
    /\ mode = "Production"
    /\ id = ProdId
    /\ client = FALSE
    /\ tables = [defined |-> FALSE, names |-> <<>>]
    /\ selectedTable = ""
    /\ \E cell \in RawCells : header = <<cell>>
    /\ query = NoQuery
    /\ values = NoValues
    /\ results = <<>>
    /\ aliased = FALSE
    /\ remote = [s \in StoreIds |-> OneSheet(DevSheet)]
    /\ pending = NoPending
    /\ steps = 0
    /\ lastOp = NoOp

\* the clean-up of the header row, applied to every cell
CanonicalizeHeader ==
    /\ Record([NoOp EXCEPT !.op = "canonicalize"])
    /\ header' = [j \in 1..Len(header) |-> Canonicalize(header[j])]
    /\ UNCHANGED <<mode, id, client, tables, selectedTable, query, values, results, aliased,
                   remote, pending>>

SpecCanonicalize == InitHeaderRow /\ [][CanonicalizeHeader]_vars

\* ------------------------------------------------------- switching mode

\* the mode the session is constructed with; any string is taken
ModeNames == {"Production", "Development", "Staging"}

InitMode ==
    /\ \E m \in ModeNames : ConstructedAs(m)
    /\ remote = [s \in StoreIds |-> OneSheet(IF s = ProdId THEN PlainSheet ELSE DevSheet)]

NextMode ==
    \/ InitSession
    \/ \E development \in BOOLEAN : SetMode(development)
    \/ Table(SheetName)
    \/ \E newRow \in InsertRecords : Insert(newRow)
    \/ \E newRow \in UpsertRecords, uniqueKey \in UniqueKeys : Upsert(newRow, uniqueKey)
    \/ Save
    \/ SaveNothing

SpecMode == InitMode /\ [][NextMode]_vars

\* --------------------------------------------------------------- claims

\* the text of cell j of row i of a sheet, empty when the cell is not there
CellText(rows, i, j) ==
    IF i <= Len(rows) /\ j <= Len(rows[i]) THEN FetchCell(rows[i][j]).s ELSE <<>>

Width(rows) ==
    IF rows = <<>> THEN 0
    ELSE LET longest == CHOOSE i \in 1..Len(rows) : \A k \in 1..Len(rows) : Len(rows[k]) <= Len(rows[i])
         IN  Len(rows[longest])

\* the data rows of `new` are those of `old`, cell for cell, up to trimming
SameDataModuloTrim(old, new) ==
    /\ Len(new) = Len(old)
    /\ \A i \in 2..Len(old) :
          \A j \in 1..(Width(old) + Width(new)) : CellText(new, i, j) = Trim(CellText(old, i, j))

\* the header row of a sheet is the session's header, raw or cleaned up
SameHeader(rows) == rows # <<>> /\ MakeHeader(FetchRow(rows[1])) = header

\* the cells of a record under the header's columns
RecordCells(row) == [j \in 1..Len(header) |-> FetchCell(Get(row, header[j])).s]

\* the data rows of a sheet are these records, in this order
DataRowsAre(rows, records) ==
    /\ Len(rows) = Len(records) + 1
    /\ \A i \in 1..Len(records) :
          \A j \in 1..(Width(rows) + Len(header)) :
             CellText(rows, i + 1, j) = IF j <= Len(header) THEN RecordCells(records[i])[j] ELSE <<>>

\* C1: table(name) followed at once by save() leaves the remote data rows as
\* they were fetched, cell for cell up to trimming, in the same row and column order
C1_RoundTrip ==
    [][(lastOp.op = "table" /\ lastOp'.op = "save")
          => SameDataModuloTrim(Sheet, Sheet')]_vars

\* C2: r.delete() followed by save() makes the remote table the header and
\* every row of the base snapshot except r, unchanged and in order
C2_DeleteThenSave ==
    [][(lastOp.op = "delete" /\ lastOp'.op \in {"save", "saveNothing"})
          => /\ SameHeader(Sheet')
             /\ DataRowsAre(Sheet',
                    SelectSeq(lastOp.base,
                              LAMBDA b : ~StrictEquals(Get(b, PrimaryKey),
                                                       Get(lastOp.row, PrimaryKey))))]_vars

\* C3: a field change made by update() on a record of the view is, after the
\* next save(), in the written row of the base record with the same primary_key
C3_UpdateReachesSave ==
    [][(lastOp.op = "update" /\ lastOp'.op = "save")
          => /\ HasKey(lastOp.row, PrimaryKey)
             /\ \E j \in 1..Len(values.entries) :
                   /\ StrictEquals(Get(values.entries[j], PrimaryKey), Get(lastOp.row, PrimaryKey))
                   /\ \A f \in 1..Len(lastOp.arg) : \A c \in 1..Len(header) :
                         header[c] = lastOp.arg[f].k
                            => CellText(Sheet', j + 1, c) = ToStr(lastOp.arg[f].v)]_vars

\* C4: after an upsert the remote data region holds every row of the base
\* snapshot, also when a filter had narrowed the view
C4_UpsertKeepsBase ==
    [][(lastOp'.op = "upsert" /\ HasValues)
          => \A j \in 1..Len(values'.entries) :
                \E i \in 2..Len(Sheet') :
                   \A c \in 1..Len(header) :
                      CellText(Sheet', i, c) = RecordCells(values'.entries[j])[c]]_vars

\* C5: table(), an optional where(), insert(record) and save() leave the remote
\* table with the inserted row once and every earlier row unchanged
C5_InsertThenSave ==
    [][(lastOp.op = "insert" /\ lastOp.wasFresh /\ lastOp'.op = "save")
          => SameDataModuloTrim(Sheet, Sheet')]_vars

\* C6: every record of the base snapshot and of the view that comes from the
\* selected table carries a primary_key (only the records that upserts pushed
\* may lack one), and no two records of either have the same primary_key
PrimaryKeysUnique(rows) ==
    /\ Cardinality({i \in 1..Len(rows) : ~HasKey(rows[i], PrimaryKey)}) <= lastOp.pushed
    /\ \A i, j \in 1..Len(rows) :
          (i # j /\ HasKey(rows[i], PrimaryKey) /\ HasKey(rows[j], PrimaryKey))
             => ~StrictEquals(Get(rows[i], PrimaryKey), Get(rows[j], PrimaryKey))

C6_PrimaryKeys ==
    HasValues => PrimaryKeysUnique(values.entries) /\ PrimaryKeysUnique(results)

\* C7: where() with "=" keeps exactly the base rows whose cell has the string
\* form of the query value, with "like" exactly those whose cell contains it,
\* in base order
C7_FilterCorrect ==
    [][(lastOp'.op = "where" /\ HasValues /\ lastOp'.query.operator \in {"=", "like"})
          => results' = SelectSeq(values.entries,
                LAMBDA r :
                   /\ HasKey(r, lastOp'.query.column)
                   /\ IF lastOp'.query.operator = "="
                      THEN ToStr(Get(r, lastOp'.query.column)) = ToStr(lastOp'.query.value)
                      ELSE Includes(ToStr(Get(r, lastOp'.query.column)),
                                    ToStr(lastOp'.query.value)))]_vars

SortedStably(before, after, column) ==
    \E p \in [1..Len(before) -> 1..Len(before)] :
       /\ \A i, j \in 1..Len(before) : i # j => p[i] # p[j]
       /\ after = [i \in 1..Len(before) |-> before[p[i]]]
       /\ \A i, j \in 1..Len(before) :
             i < j => \/ CompareRows(after[i], after[j], column) < 0
                      \/ CompareRows(after[i], after[j], column) = 0 /\ p[i] < p[j]

C11_HeaderShape ==
    [][(lastOp'.op = "save")
          => /\ Sheet' # <<>>
             /\ Sheet'[1] = HeaderRow(header)
             /\ DataRowsAre(Sheet', values'.entries)
             /\ \A i \in 2..Len(Sheet') : Len(Sheet'[i]) = Len(header)]_vars

\* C12: insert(record) issues one append of one row and no clear; the row has
\* header.length cells, cell j the record's value for header column j when the
\* record has that field and the empty string when it has not
C12_InsertRowShape ==
    [][(lastOp'.op = "insert")
          => /\ lastOp'.calls = <<Call("values.append", id, WholeSheet(selectedTable))>>
             /\ Len(Sheet') = Len(Sheet) + 1
             /\ SubSeq(Sheet', 1, Len(Sheet)) = Sheet
             /\ Sheet'[Len(Sheet')] =
                   [j \in 1..Len(header) |->
                       IF HasKey(lastOp'.arg, header[j]) THEN Get(lastOp'.arg, header[j])
                                                        ELSE EmptyCell]]_vars

\* the view without its last record
ButLast(rows) == SubSeq(rows, 1, Len(rows) - 1)

\* C13: a record that an upsert pushed into a filtered view, and that never was
\* in the base snapshot, is not picked up by the next save(): the base snapshot
\* and the rows written are those of a save() of the view without the record
C13_ForeignRecordIgnored ==
    [][(/\ lastOp.op = "upsert"
        /\ lastOp.n = 0
        /\ ~aliased
        /\ lastOp'.op = "save")
          => /\ values'.entries = Reconcile(values.entries, ButLast(results), header, FALSE, 1)
             /\ Sheet' = UpdatedValues(values'.entries, header)]_vars

\* C14: a value assigned to a field of a row of get() is, after save(), in
\* the written row of the base record with the same primary_key
C14_AssignedFieldSaved ==
    [][(lastOp.op = "assign" /\ lastOp'.op = "save")
          => \E j \in 1..Len(values.entries) :
                /\ StrictEquals(Get(values.entries[j], PrimaryKey), Get(lastOp.row, PrimaryKey))
                /\ \A f \in 1..Len(lastOp.arg) : \A c \in 1..Len(header) :
                      header[c] = lastOp.arg[f].k
                         => CellText(Sheet', j + 1, c) = ToStr(lastOp.arg[f].v)]_vars

\* the sheets that the write-backs in the set, run one after the other in some
\* order, can leave
RECURSIVE SerialOutcomes(_, _)
SerialOutcomes(calls, rows) ==
    IF calls = {} THEN {rows}
    ELSE UNION { SerialOutcomes(calls \ {k},
                                Written(pending.calls[k], Cleared(pending.calls[k], rows)))
                    : k \in calls }

\* C15: of the write-backs in flight on a session at most one is between its
\* clear and its write, and once all have completed the remote table is what
\* some serial execution of them leaves
C15_Serialized ==
    /\ Cardinality({k \in 1..Len(pending.calls) : pending.calls[k].stage = "write"}) <= 1
    /\ (Len(pending.calls) > 1 /\ AllDone)
          => Sheet \in SerialOutcomes(1..Len(pending.calls), pending.start)

\* the remote calls of a write-back by save(), in order
SaveCalls ==
    << Call("values.clear", id, WholeSheet(selectedTable)),
       Call("values.batchUpdate", id, WholeSheet(selectedTable)) >>

\* C16: save() issues the clear before the batch write, each at most once;
\* when the clear succeeds and the batch write fails, save() rejects with no
\* further call and the remote table is left cleared, header included
C16_ClearThenWrite ==
    [][(steps' # steps /\ lastOp'.op = "save" /\ lastOp'.calls # <<>>)
          => /\ Len(lastOp'.calls) <= 2
             /\ lastOp'.calls = SubSeq(SaveCalls, 1, Len(lastOp'.calls))
             /\ lastOp'.failed = 2
                   => /\ ~lastOp'.ok
                      /\ Len(lastOp'.calls) = 2
                      /\ Sheet' = <<>>]_vars

\* a save() whose batch write failed has left a sheet that had rows empty
C16_Witness ==
    /\ lastOp.op = "save"
    /\ lastOp.failed = 2
    /\ ~lastOp.ok
    /\ values.entries # <<>>
    /\ Sheet = <<>>

\* C17: when a remote call of init(), table(), insert() or save() fails, the
\* operation rejects, the failed call is its last call, and the error carries
\* the detail the store reported
C17_FailuresSurface ==
    [][(steps' # steps /\ lastOp'.failed # 0)
          => /\ ~lastOp'.ok
             /\ Len(lastOp'.calls) = lastOp'.failed
             /\ \E i \in 1..Len(lastOp'.error) : lastOp'.error[i] = StoreDetail]_vars

\* C18: save() with an empty view issues no remote call, changes nothing and
\* does not throw; save() with a view that is not empty and no base snapshot
\* for the selected table throws and issues no remote call
C18_EmptySaveNoop ==
    [][/\ (steps' # steps /\ lastOp'.op \in {"save", "saveNothing"} /\ results = <<>>)
            => /\ lastOp'.calls = <<>>
               /\ lastOp'.ok
               /\ UNCHANGED <<mode, id, client, tables, selectedTable, header, query, values,
                              results, aliased, remote, pending>>
       /\ (steps' # steps /\ lastOp'.op \in {"save", "saveNothing"} /\ results # <<>> /\ ~HasValues)
            => /\ lastOp'.calls = <<>>
               /\ ~lastOp'.ok
               /\ remote' = remote]_vars

\* a save() with a view that is not empty has thrown for want of a base
\* snapshot of the selected table
C18_Witness ==
    /\ lastOp.op = "save"
    /\ ~lastOp.ok
    /\ lastOp.calls = <<>>
    /\ results # <<>>
    /\ ~HasValues

\* C19: update() and delete() on a row of get() issue no remote call and leave
\* every spreadsheet as it is
C19_EditsAreLocal ==
    [][(steps' # steps /\ lastOp'.op \in {"update", "delete"})
          => /\ lastOp'.calls = <<>>
             /\ remote' = remote]_vars

\* a delete() has shortened the view and the base snapshot, which are one
\* array, and the sheet still has a row for every record there was
C19_Witness ==
    /\ lastOp.op = "delete"
    /\ aliased
    /\ Len(values.entries) < lastOp.before
    /\ Len(Sheet) = lastOp.before + 1

\* C20: first() returns the first record of the view, or undefined when the
\* view is empty, and leaves the view, the base snapshot and the remote table
\* unchanged; a first() right after a first() returns the same record
C20_FirstNonDestructive ==
    [][(steps' # steps /\ lastOp'.op = "first")
          => /\ results = <<>> => ~lastOp'.returned.defined
             /\ results # <<>> => /\ lastOp'.returned.defined
                                  /\ lastOp'.returned.row = results[1]
             /\ results' = results
             /\ values' = values
             /\ remote' = remote
             /\ lastOp'.again => lastOp'.returned = lastOp.returned]_vars

\* first() has been called twice in a row on a view of several records
C20_Witness ==
    /\ lastOp.op = "first"
    /\ lastOp.again
    /\ lastOp.returned.defined
    /\ Len(results) > 1
    /\ lastOp.returned.row = results[1]

\* C21: a call that fails local validation (table() with a name that is not in
\* the catalog or made before the catalog is there, where() with an operator
\* outside the seven or a column that is not a non-empty string, orderBy() with
\* such a column or a direction that is neither asc nor desc) throws, sends
\* nothing, and leaves selectedTable, header, query, view and base as they were
C21_ValidationFirst ==
    [][(/\ steps' # steps
        /\ \/ /\ lastOp'.op = "table"
              /\ ~(tables.defined /\ \E i \in 1..Len(tables.names) :
                                         tables.names[i] = lastOp'.name)
           \/ /\ lastOp'.op = "where"
              /\ \/ lastOp'.query.operator \notin {"=", "!=", ">", "<", ">=", "<=", "like"}
                 \/ /\ lastOp'.input.given
                    /\ ~(lastOp'.input.column.t = "string" /\ lastOp'.input.column.s # <<>>)
           \/ /\ lastOp'.op = "orderBy"
              /\ \/ /\ lastOp'.input.given
                    /\ ~(lastOp'.input.column.t = "string" /\ lastOp'.input.column.s # <<>>)
                 \/ lastOp'.direction \notin {"asc", "desc", "ASC", "DESC", "Desc"})
          => /\ ~lastOp'.ok
             /\ lastOp'.calls = <<>>
             /\ remote' = remote
             /\ UNCHANGED <<selectedTable, header, query, results, values>>]_vars

\* a where() with an operator outside the seven was rejected while a table was
\* loaded, a filter was in force and the view held records
C21_Witness ==
    /\ lastOp.op = "where"
    /\ ~lastOp.ok
    /\ lastOp.query.operator = "~"
    /\ HasValues
    /\ query # NoQuery
    /\ results # <<>>

\* C22: a table() that fetched a header row and n data rows sets header to the
\* canonicalized first row and the view to n records in fetch order; record i
\* has primary_key i and, under every header token, the trimmed cell of data
\* row i in that token's column, the empty string when the cell is missing
C22_Materialized ==
    [][(steps' # steps /\ lastOp'.op = "table" /\ lastOp'.ok)
          => LET data == ValuesGet(Sheet') IN
             /\ header' = [j \in 1..Len(data[1]) |-> Canonicalize(data[1][j].s)]
             /\ Len(results') = Len(data) - 1
             /\ \A i \in 1..Len(results') :
                   /\ Get(results'[i], PrimaryKey) = Num(i)
                   /\ \A j \in 1..Len(header') :
                         Get(results'[i], header'[j]) = Str(Trim(CellText(data, i + 1, j)))]_vars

\* C23: canonicalizing a header that is already canonical changes nothing:
\* canonicalize(canonicalize(H)) = canonicalize(H)
C23_CanonicalizeIdempotent ==
    [][(steps' # steps /\ lastOp.op = "canonicalize" /\ lastOp'.op = "canonicalize")
          => header' = header]_vars

\* the clean-up ran twice on a cell that it had to change: the cell now holds
\* an underscore next to a letter or digit
C23_Witness ==
    /\ steps >= 2
    /\ lastOp.op = "canonicalize"
    /\ \E j \in 1..Len(header) : \E i \in 1..Len(header[j]) - 1 :
          \/ header[j][i] = "_" /\ IsAlnum(header[j][i + 1])
          \/ IsAlnum(header[j][i]) /\ header[j][i + 1] = "_"

\* the property names of a record
Keys(row) == { row[e].k : e \in 1..Len(row) }

\* C24: whatever update, insert, upsert, delete and save calls were made, every
\* record of the base snapshot has exactly the header columns (and possibly
\* primary_key), every one of them holding a value
C24_SnapshotColumns ==
    HasValues
       => \A i \in 1..Len(values.entries) :
             /\ Keys(values.entries[i]) \ {PrimaryKey} = { header[j] : j \in 1..Len(header) }
             /\ \A e \in 1..Len(values.entries[i]) : values.entries[i][e].v # Undefined

\* C25: after construction and any setMode() calls the active id is devId when
\* mode is "Development" and prodId otherwise; setMode() sends nothing and
\* changes no store (it may be called before init()); every remote call made
\* later, the listing of init() included, goes to the id that is then active
\* and no other store changes
C25_ModeSelectsStore ==
    /\ id = IF mode = "Development" THEN DevId ELSE ProdId
    /\ [][/\ id' = IF mode' = "Development" THEN DevId ELSE ProdId
          /\ (steps' # steps /\ lastOp'.op = "setMode")
                => lastOp'.calls = <<>> /\ remote' = remote
          /\ steps' # steps
                => \A k \in 1..Len(lastOp'.calls) : lastOp'.calls[k].id = id
          /\ tables' # tables => tables'.names = Titles(remote[id])
          /\ \A s \in StoreIds \ {id} : remote'[s] = remote[s]]_vars

\* a session that fetched its table from the production store was switched to
\* Development, and the save() that followed sent its calls to the
\* development id
C25_Witness ==
    /\ mode = "Development"
    /\ id = DevId
    /\ lastOp.op = "save"
    /\ lastOp.source = ProdId
    /\ lastOp.calls # <<>>
    /\ \A k \in 1..Len(lastOp.calls) : lastOp.calls[k].id = DevId

\* C28: the clear and write calls of save() and of an upserting insert() go to
\* the store the base snapshot was fetched from, and change no other store,
\* also when setMode() was called after table()
C28_WriteBackToSource ==
    [][(steps' # steps /\ lastOp'.op \in {"save", "upsert"} /\ HasValues)
          => /\ \A k \in 1..Len(lastOp'.calls) : lastOp'.calls[k].id = lastOp'.source
             /\ \A s \in StoreIds \ {lastOp'.source} : remote'[s] = remote[s]]_vars

\* C26: an orderBy() on the view of a table() that no where() has filtered
\* reorders the view only: the records of the base snapshot stay in the order
\* in which they were fetched
C26_SortLeavesBase ==
    [][(steps' # steps /\ lastOp'.op = "orderBy" /\ lastOp'.ok /\ aliased)
          => values'.entries = values.entries]_vars

\* C27: a field change made by update() on a record of the view, followed by a
\* where() and then, with no other edit, by a save() that writes, is in the
\* written row of the base record with the same primary_key
C27_EditSurvivesFilter ==
    [][(/\ lastOp.op = "where"
        /\ lastOp.ok
        /\ lastOp.edit.set
        /\ HasKey(lastOp.edit.row, PrimaryKey)
        /\ steps' # steps
        /\ lastOp'.op = "save")
          => \E j \in 1..Len(values.entries) :
                /\ StrictEquals(Get(values.entries[j], PrimaryKey),
                                Get(lastOp.edit.row, PrimaryKey))
                /\ \A f \in 1..Len(lastOp.edit.arg) : \A c \in 1..Len(header) :
                      header[c] = lastOp.edit.arg[f].k
                         => CellText(Sheet', j + 1, c) = ToStr(lastOp.edit.arg[f].v)]_vars

\* C29: a table(name) that passed validation and then failed, because the
\* fetch failed or returned no rows, leaves selectedTable, header, base and
\* view as they were; and whenever selectedTable is not empty the base
\* snapshot of that table is there
C29_FailedSelectKeepsSession ==
    [][/\ (steps' # steps /\ lastOp'.op = "table" /\ ~lastOp'.ok /\ lastOp'.calls # <<>>)
             => UNCHANGED <<selectedTable, header, values, results>>
       /\ selectedTable' # "" => values'.table = selectedTable']_vars

\* C30: an insert(), upserting or not, one of whose remote calls failed,
\* rejects and leaves view and base snapshot as they were
C30_FailedInsertKeepsMemory ==
    [][(steps' # steps /\ lastOp'.op \in {"insert", "upsert"} /\ lastOp'.failed # 0)
          => /\ ~lastOp'.ok
             /\ results' = results
             /\ values' = values]_vars

\* C31: an orderBy() whose direction passed validation and is "desc" up to
\* letter case ("DESC", "Desc") leaves the view that direction "desc" leaves:
\* the stable ascending sort on the column, reversed
C31_DescendingAnyCase ==
    [][(/\ steps' # steps
        /\ lastOp'.op = "orderBy"
        /\ lastOp'.ok
        /\ lastOp'.direction \in {"desc", "DESC", "Desc"}
        /\ ConsistentOn(results, lastOp'.key))
          => results' = Reverse(StableSort(results, lastOp'.key))]_vars

====
